---- MODULE Spec2Model ----
(***************************************************************************)
(* Model of the numeric / decision core of src/tree/param.h:               *)
(*   - ThresholdL1, CalcWeight, CalcGainGivenWeight, CalcGain              *)
(*   - GradStats                                                           *)
(*   - ValueConstraint (CalcWeight, CalcSplitGain, SetChild)               *)
(*   - SplitEntry (NeedReplace, Update, Reduce, SplitIndex, DefaultLeft)   *)
(*                                                                         *)
(* Numbers.  A double / bst_float is modelled as an exact extended         *)
(* rational <<n, d>>:                                                      *)
(*    d > 0          the finite value n/d, in lowest terms                 *)
(*    <<-2,0>>       -infinity                                             *)
(*    <<-1,0>>       -std::numeric_limits<double>::max()                   *)
(*    << 0,0>>       NaN                                                   *)
(*    << 1,0>>       +std::numeric_limits<double>::max()                   *)
(*    << 2,0>>       +infinity                                             *)
(* Arithmetic on finite values is exact (no rounding).  The gains offered  *)
(* to a SplitEntry are finite or -infinity; NaN gains are not offered.     *)
(*                                                                         *)
(* A 32-bit unsigned word is modelled as <<bit31, bits0to30>>.             *)
(***************************************************************************)
EXTENDS Integers, Sequences, FiniteSets, TLC

VARIABLES
  start,     \* the SplitEntry before any candidate was offered
  best,      \* the SplitEntry being updated in place
  offered,   \* the candidate records offered to best so far
  dst,       \* a second SplitEntry, the destination of Reduce(dst, best)
  last,      \* the last SplitEntry call: its arguments and return value
  recs,      \* per-worker best-split records awaiting the reduction phase
  merged,    \* results of the reduction phase
  calc,      \* the last call of the free CalcWeight / CalcGain
  param,     \* the TrainParam used by the ValueConstraint operations
  cons,      \* node id -> ValueConstraint of that tree node
  split,     \* node id -> the SetChild call made on that node
  sgain      \* the last ValueConstraint::CalcSplitGain call

vars == <<start, best, offered, dst, last, recs, merged, calc, param, cons, split, sgain>>

-----------------------------------------------------------------------------
(* Extended rationals *)

NegInf == <<-2, 0>>
PosInf == <<2, 0>>
NaN == <<0, 0>>
NegDblMax == <<-1, 0>>
PosDblMax == <<1, 0>>

Abs(n) == IF n < 0 THEN -n ELSE n

RECURSIVE GCD(_, _)
GCD(a, b) == IF b = 0 THEN a ELSE GCD(b, a % b)

\* the finite value n/d (d # 0) in lowest terms with a positive denominator
Norm(n, d) ==
  LET g == GCD(Abs(n), Abs(d))
      s == IF d < 0 THEN -1 ELSE 1
  IN  <<(s * n) \div g, (s * d) \div g>>

R(n) == <<n, 1>>
Zero == R(0)

IsFinite(x) == x[2] > 0
IsNaN(x) == x = NaN

\* a < b on doubles; every comparison with NaN is false
Lt(a, b) ==
  IF IsNaN(a) \/ IsNaN(b) THEN FALSE
  ELSE IF a[2] = 0 /\ b[2] = 0 THEN a[1] < b[1]
  ELSE a[1] * b[2] < b[1] * a[2]

Gt(a, b) == Lt(b, a)
Le(a, b) == ~IsNaN(a) /\ ~IsNaN(b) /\ ~Lt(b, a)
Ge(a, b) == Le(b, a)

Neg(a) == <<-a[1], a[2]>>

Add(a, b) ==
  IF IsFinite(a) /\ IsFinite(b)
  THEN Norm(a[1] * b[2] + b[1] * a[2], a[2] * b[2])
  ELSE NaN

Sub(a, b) == Add(a, Neg(b))

Mul(a, b) ==
  IF IsFinite(a) /\ IsFinite(b)
  THEN Norm(a[1] * b[1], a[2] * b[2])
  ELSE NaN

\* IEEE division of finite values: x/0 is an infinity, 0/0 is NaN
Div(a, b) ==
  IF ~(IsFinite(a) /\ IsFinite(b)) THEN NaN
  ELSE IF b[1] = 0
       THEN (IF a[1] = 0 THEN NaN ELSE IF a[1] > 0 THEN PosInf ELSE NegInf)
       ELSE Norm(a[1] * b[2], a[2] * b[1])

FAbs(a) == IF Lt(a, Zero) THEN Neg(a) ELSE a

-----------------------------------------------------------------------------
(* Loss functions: the regularized weight / gain calculator *)

ThresholdL1(w, alpha) ==
  IF Gt(w, alpha) THEN Sub(w, alpha)
  ELSE IF Lt(w, Neg(alpha)) THEN Add(w, alpha)
  ELSE Zero

Sqr(a) == Mul(a, a)

CalcGainGivenWeight(p, sum_grad, sum_hess, w) ==
  Neg(Add(Mul(Mul(R(2), sum_grad), w), Mul(Add(sum_hess, p.reg_lambda), Sqr(w))))

CalcWeight(p, sum_grad, sum_hess) ==
  IF Lt(sum_hess, p.min_child_weight) \/ Le(sum_hess, Zero) THEN Zero
  ELSE LET dw == IF p.reg_alpha = Zero
                 THEN Div(Neg(sum_grad), Add(sum_hess, p.reg_lambda))
                 ELSE Div(Neg(ThresholdL1(sum_grad, p.reg_alpha)),
                          Add(sum_hess, p.reg_lambda))
       IN  IF p.max_delta_step # Zero
           THEN IF Gt(dw, p.max_delta_step) THEN p.max_delta_step
                ELSE IF Lt(dw, Neg(p.max_delta_step)) THEN Neg(p.max_delta_step)
                ELSE dw
           ELSE dw

CalcGain(p, sum_grad, sum_hess) ==
  IF Lt(sum_hess, p.min_child_weight) THEN Zero
  ELSE IF p.max_delta_step = Zero
       THEN IF p.reg_alpha = Zero
            THEN Div(Sqr(sum_grad), Add(sum_hess, p.reg_lambda))
            ELSE Div(Sqr(ThresholdL1(sum_grad, p.reg_alpha)),
                     Add(sum_hess, p.reg_lambda))
       ELSE LET w == CalcWeight(p, sum_grad, sum_hess)
                ret == CalcGainGivenWeight(p, sum_grad, sum_hess, w)
            IN  IF p.reg_alpha = Zero THEN ret
                ELSE Add(ret, Mul(p.reg_alpha, FAbs(w)))

\* the denominators of the divisions CalcWeight evaluates on these arguments
CalcWeightDivisors(p, sum_grad, sum_hess) ==
  IF Lt(sum_hess, p.min_child_weight) \/ Le(sum_hess, Zero) THEN {}
  ELSE {Add(sum_hess, p.reg_lambda)}

\* the denominators of the divisions CalcGain evaluates on these arguments
CalcGainDivisors(p, sum_grad, sum_hess) ==
  IF Lt(sum_hess, p.min_child_weight) THEN {}
  ELSE IF p.max_delta_step = Zero THEN {Add(sum_hess, p.reg_lambda)}
  ELSE CalcWeightDivisors(p, sum_grad, sum_hess)

-----------------------------------------------------------------------------
(* GradStats *)

GradStats(grad, hess) == [sum_grad |-> grad, sum_hess |-> hess]

\* GradStats(): sum_grad{0}, sum_hess{0}
EmptyStats == GradStats(Zero, Zero)

-----------------------------------------------------------------------------
(* ValueConstraint *)

\* ValueConstraint(): lower_bound(-max), upper_bound(max)
DefaultConstraint == [lower_bound |-> NegDblMax, upper_bound |-> PosDblMax]

\* seeded fault: the weight is not clamped into [lower_bound, upper_bound]
ValueConstraintCalcWeightUnclamped(c, p, stats) ==
  CalcWeight(p, stats.sum_grad, stats.sum_hess)

ValueConstraintCalcWeight(c, p, stats) ==
  LET w == CalcWeight(p, stats.sum_grad, stats.sum_hess)
  IN  IF Lt(w, c.lower_bound) THEN c.lower_bound
      ELSE IF Gt(w, c.upper_bound) THEN c.upper_bound
      ELSE w

ValueConstraintCalcGain(c, p, stats) ==
  CalcGainGivenWeight(p, stats.sum_grad, stats.sum_hess,
                      ValueConstraintCalcWeight(c, p, stats))

\* seeded fault: equal projected weights are rejected (< for <=, > for >=)
CalcSplitGainStrict(c, p, constraint, left, right) ==
  LET wleft == ValueConstraintCalcWeight(c, p, left)
      wright == ValueConstraintCalcWeight(c, p, right)
      gain == Add(CalcGainGivenWeight(p, left.sum_grad, left.sum_hess, wleft),
                  CalcGainGivenWeight(p, right.sum_grad, right.sum_hess, wright))
  IN  IF constraint = 0 THEN gain
      ELSE IF constraint > 0 THEN (IF Lt(wleft, wright) THEN gain ELSE NegInf)
      ELSE (IF Gt(wleft, wright) THEN gain ELSE NegInf)

CalcSplitGain(c, p, constraint, left, right) ==
  LET wleft == ValueConstraintCalcWeight(c, p, left)
      wright == ValueConstraintCalcWeight(c, p, right)
      gain == Add(CalcGainGivenWeight(p, left.sum_grad, left.sum_hess, wleft),
                  CalcGainGivenWeight(p, right.sum_grad, right.sum_hess, wright))
  IN  IF constraint = 0 THEN gain
      ELSE IF constraint > 0 THEN (IF Le(wleft, wright) THEN gain ELSE NegInf)
      ELSE (IF Ge(wleft, wright) THEN gain ELSE NegInf)

\* seeded fault: mid is taken from the unconstrained weights
SetChildMidUnclamped(c, p, left, right) ==
  Div(Add(CalcWeight(p, left.sum_grad, left.sum_hess),
          CalcWeight(p, right.sum_grad, right.sum_hess)), R(2))

\* mid = (wleft + wright) / 2 of SetChild
SetChildMid(c, p, left, right) ==
  Div(Add(ValueConstraintCalcWeight(c, p, left),
          ValueConstraintCalcWeight(c, p, right)), R(2))

\* seeded fault: the two directions are exchanged (c > 0 for c < 0)
SetChildSwapped(c, p, split_index, left, right) ==
  LET dir == p.monotone_constraints[split_index + 1]
      mid == SetChildMid(c, p, left, right)
  IN  IF dir = 0 THEN [cleft |-> c, cright |-> c]
      ELSE IF dir > 0
           THEN [cleft  |-> [c EXCEPT !.lower_bound = mid],
                 cright |-> [c EXCEPT !.upper_bound = mid]]
           ELSE [cleft  |-> [c EXCEPT !.upper_bound = mid],
                 cright |-> [c EXCEPT !.lower_bound = mid]]

\* the pair (*cleft, *cright) SetChild writes; feature indices are 0-based,
\* monotone_constraints is a 1-based sequence
SetChild(c, p, split_index, left, right) ==
  LET dir == p.monotone_constraints[split_index + 1]
      mid == SetChildMid(c, p, left, right)
  IN  IF dir = 0 THEN [cleft |-> c, cright |-> c]
      ELSE IF dir < 0
           THEN [cleft  |-> [c EXCEPT !.lower_bound = mid],
                 cright |-> [c EXCEPT !.upper_bound = mid]]
           ELSE [cleft  |-> [c EXCEPT !.upper_bound = mid],
                 cright |-> [c EXCEPT !.lower_bound = mid]]

\* CHECK(!std::isnan(mid)): SetChild aborts when it fails
SetChildCheck(c, p, split_index, left, right) ==
  p.monotone_constraints[split_index + 1] = 0
    \/ ~IsNaN(SetChildMid(c, p, left, right))

-----------------------------------------------------------------------------
(* SplitEntry *)

\* a 32-bit unsigned word <<bit 31, bits 0..30>>
U32(i) == <<0, i>>
ULe(a, b) == a[1] < b[1] \/ (a[1] = b[1] /\ a[2] <= b[2])
\* w | (1U << 31)
OrBit31(w) == <<1, w[2]>>

\* SplitEntry() = default: loss_chg{0.0f}, sindex{0}, split_value{0.0f}
DefaultEntry ==
  [loss_chg |-> Zero, sindex |-> U32(0), split_value |-> Zero,
   left_sum |-> EmptyStats, right_sum |-> EmptyStats]

\* sindex & ((1U << 31) - 1U)
SplitIndex(e) == <<0, e.sindex[2]>>

\* (sindex >> 31) != 0
DefaultLeft(e) == e.sindex[1] # 0

\* seeded fault: no tie-break on the feature index
NeedReplaceStrict(this, new_loss_chg, split_index) ==
  Gt(new_loss_chg, this.loss_chg)

\* seeded fault: the two comparisons are exchanged, so ties go to the larger index
NeedReplaceSwapped(this, new_loss_chg, split_index) ==
  IF ULe(SplitIndex(this), split_index)
  THEN ~Gt(this.loss_chg, new_loss_chg)
  ELSE Gt(new_loss_chg, this.loss_chg)

\* seeded fault: the incumbent's index is compared with its flag bit still set
NeedReplaceUnmasked(this, new_loss_chg, split_index) ==
  IF ULe(this.sindex, split_index)
  THEN Gt(new_loss_chg, this.loss_chg)
  ELSE ~Gt(this.loss_chg, new_loss_chg)

\* seeded fault: the operands of the second comparison are exchanged
NeedReplaceOperands(this, new_loss_chg, split_index) ==
  IF ULe(SplitIndex(this), split_index)
  THEN Gt(new_loss_chg, this.loss_chg)
  ELSE ~Gt(new_loss_chg, this.loss_chg)

NeedReplace(this, new_loss_chg, split_index) ==
  IF ULe(SplitIndex(this), split_index)
  THEN Gt(new_loss_chg, this.loss_chg)
  ELSE ~Gt(this.loss_chg, new_loss_chg)

\* seeded fault: loss_chg is not copied
UpdateKeepsLoss(this, e) ==
  IF NeedReplace(this, e.loss_chg, SplitIndex(e))
  THEN [loss_chg |-> this.loss_chg, sindex |-> e.sindex, split_value |-> e.split_value,
        left_sum |-> e.left_sum, right_sum |-> e.right_sum]
  ELSE this

\* Update(const SplitEntry &e): the record afterwards
Update(this, e) ==
  IF NeedReplace(this, e.loss_chg, SplitIndex(e))
  THEN [loss_chg |-> e.loss_chg, sindex |-> e.sindex, split_value |-> e.split_value,
        left_sum |-> e.left_sum, right_sum |-> e.right_sum]
  ELSE this

\* seeded fault: default_left is not packed into bit 31
UpdateFieldsNoPack(this, new_loss_chg, split_index, new_split_value, default_left, left_sum, right_sum) ==
  IF NeedReplace(this, new_loss_chg, split_index)
  THEN [loss_chg |-> new_loss_chg,
        sindex |-> split_index,
        split_value |-> new_split_value,
        left_sum |-> left_sum, right_sum |-> right_sum]
  ELSE this

\* Update(new_loss_chg, split_index, new_split_value, default_left, left_sum,
\* right_sum): the record afterwards
UpdateFields(this, new_loss_chg, split_index, new_split_value, default_left, left_sum, right_sum) ==
  IF NeedReplace(this, new_loss_chg, split_index)
  THEN [loss_chg |-> new_loss_chg,
        sindex |-> IF default_left THEN OrBit31(split_index) ELSE split_index,
        split_value |-> new_split_value,
        left_sum |-> left_sum, right_sum |-> right_sum]
  ELSE this

\* static Reduce(dst, src): dst.Update(src)
Reduce(d, src) == Update(d, src)

-----------------------------------------------------------------------------
(* Inputs of the split search *)

\* the largest number of candidates offered to one record
MaxOffered == 3

\* loss changes a candidate can carry: -infinity is CalcSplitGain's verdict on
\* an infeasible split
Gains == {NegInf, R(-1), R(0), R(1)}

\* feature indices of the candidates
Indices == {0, 1, 2}

StatsA == GradStats(R(-4), R(1))
StatsB == GradStats(R(2), R(3))

\* what else a candidate carries: default direction, threshold, child sums
Payloads ==
  { [default_left |-> FALSE, split_value |-> R(0), left_sum |-> StatsA, right_sum |-> StatsB],
    [default_left |-> TRUE, split_value |-> R(1), left_sum |-> StatsB, right_sum |-> StatsA] }

\* the SplitEntry a worker holds after adopting these fields
MakeEntry(g, i, pl) ==
  [loss_chg |-> g,
   sindex |-> IF pl.default_left THEN OrBit31(U32(i)) ELSE U32(i),
   split_value |-> pl.split_value,
   left_sum |-> pl.left_sum, right_sum |-> pl.right_sum]

Candidates == { MakeEntry(g, i, pl) : g \in Gains, i \in Indices, pl \in Payloads }

\* records a search can start from: the default-constructed one, one holding an
\* infeasible split, one holding a good split
StartEntries ==
  { DefaultEntry,
    MakeEntry(NegInf, 1, CHOOSE pl \in Payloads : ~pl.default_left),
    MakeEntry(R(1), 1, CHOOSE pl \in Payloads : pl.default_left) }

NoCall == [op |-> "none"]
NoCalc == [op |-> "none"]
NoParam == [reg_lambda |-> Zero, reg_alpha |-> Zero, min_child_weight |-> Zero,
            max_delta_step |-> Zero, monotone_constraints |-> <<>>]

-----------------------------------------------------------------------------
(* Split search on one record: candidates are offered one at a time *)

\* the variables of the parts of the model a specification does not exercise
SplitIdle == start = DefaultEntry /\ best = DefaultEntry /\ offered = {}
PackIdle == dst = DefaultEntry /\ last = NoCall
ReduceIdle == recs = <<>> /\ merged = [fold |-> <<>>, tree |-> <<>>]
CalcIdle == calc = NoCalc
ConstraintIdle == param = NoParam /\ cons = <<>> /\ split = <<>> /\ sgain = NoCall

Init ==
  /\ start \in StartEntries
  /\ best = start
  /\ offered = {}
  /\ PackIdle /\ ReduceIdle /\ CalcIdle /\ ConstraintIdle

OtherUnchanged == UNCHANGED <<recs, merged, calc, param, cons, split, sgain>>

\* best.Update(e)
OfferUpdate(e) ==
  /\ Cardinality(offered) < MaxOffered
  /\ e \notin offered
  /\ best' = Update(best, e)
  /\ offered' = offered \cup {e}
  /\ UNCHANGED <<start, dst, last>>
  /\ OtherUnchanged

\* best.Update(new_loss_chg, split_index, new_split_value, default_left, left_sum, right_sum)
OfferFields(g, i, pl) ==
  /\ Cardinality(offered) < MaxOffered
  /\ MakeEntry(g, i, pl) \notin offered
  /\ best' = UpdateFields(best, g, U32(i), pl.split_value, pl.default_left,
                          pl.left_sum, pl.right_sum)
  /\ offered' = offered \cup {MakeEntry(g, i, pl)}
  /\ UNCHANGED <<start, dst, last>>
  /\ OtherUnchanged

\* SplitEntry::Reduce(best, e)
OfferReduce(e) ==
  /\ Cardinality(offered) < MaxOffered
  /\ e \notin offered
  /\ best' = Reduce(best, e)
  /\ offered' = offered \cup {e}
  /\ UNCHANGED <<start, dst, last>>
  /\ OtherUnchanged

Next ==
  \/ \E e \in Candidates : OfferUpdate(e)
  \/ \E g \in Gains, i \in Indices, pl \in Payloads : OfferFields(g, i, pl)
  \/ \E e \in Candidates : OfferReduce(e)

Spec == Init /\ [][Next]_vars

-----------------------------------------------------------------------------
(* Bit packing: raw-field updates of best, and copies of best into dst *)

\* 2^31 - 1, the largest value of bits 0..30
MaxFeatureIndex == 2147483647

\* split_index arguments: in-range feature indices, and 2^31 + 1, which does
\* not fit bits 0..30
PackIndices == {U32(0), U32(1), U32(MaxFeatureIndex), <<1, 1>>}

InitPack ==
  /\ start \in StartEntries
  /\ best = start
  /\ offered = {}
  /\ dst = DefaultEntry
  /\ last = [op |-> "none", ret |-> FALSE, split_index |-> SplitIndex(start),
             default_left |-> DefaultLeft(start)]
  /\ ReduceIdle /\ CalcIdle /\ ConstraintIdle

\* best.Update(g, w, split_value, default_left, left_sum, right_sum); last
\* keeps the index and flag passed to the latest replacing call
PackFields(g, w, pl) ==
  /\ best' = UpdateFields(best, g, w, pl.split_value, pl.default_left,
                          pl.left_sum, pl.right_sum)
  /\ last' = IF NeedReplace(best, g, w)
             THEN [op |-> "UpdateFields", ret |-> TRUE, split_index |-> w,
                   default_left |-> pl.default_left]
             ELSE [last EXCEPT !.op = "UpdateFields", !.ret = FALSE]
  /\ UNCHANGED <<start, offered, dst>>
  /\ OtherUnchanged

\* dst.Update(best)
PackUpdate ==
  /\ dst' = Update(dst, best)
  /\ last' = [last EXCEPT !.op = "Update",
                          !.ret = NeedReplace(dst, best.loss_chg, SplitIndex(best))]
  /\ UNCHANGED <<start, offered, best>>
  /\ OtherUnchanged

\* SplitEntry::Reduce(dst, best)
PackReduce ==
  /\ dst' = Reduce(dst, best)
  /\ last' = [last EXCEPT !.op = "Reduce",
                          !.ret = NeedReplace(dst, best.loss_chg, SplitIndex(best))]
  /\ UNCHANGED <<start, offered, best>>
  /\ OtherUnchanged

NextPack ==
  \/ \E g \in Gains, w \in PackIndices, pl \in Payloads : PackFields(g, w, pl)
  \/ PackUpdate
  \/ PackReduce

SpecPack == InitPack /\ [][NextPack]_vars

-----------------------------------------------------------------------------
(* Reduction phase: per-worker records merged by Reduce *)

\* the largest number of per-worker records merged
MaxWorkers == 3

\* Reduce applied as a sequential left fold: ((s1 . s2) . s3) . ...
RECURSIVE LeftFold(_)
LeftFold(s) ==
  IF Len(s) = 1 THEN s[1]
  ELSE Reduce(LeftFold(SubSeq(s, 1, Len(s) - 1)), s[Len(s)])

\* Reduce applied as a balanced binary tree: the two halves are merged
\* separately, then the right result is reduced into the left one
RECURSIVE TreeReduce(_)
TreeReduce(s) ==
  IF Len(s) = 1 THEN s[1]
  ELSE LET h == Len(s) \div 2
       IN  Reduce(TreeReduce(SubSeq(s, 1, h)), TreeReduce(SubSeq(s, h + 1, Len(s))))

InitReduce ==
  /\ SplitIdle /\ PackIdle
  /\ recs = <<>>
  /\ merged = [fold |-> <<>>, tree |-> <<>>]
  /\ CalcIdle /\ ConstraintIdle

ReduceUnchanged ==
  UNCHANGED <<start, best, offered, dst, last, calc, param, cons, split, sgain>>

\* a worker finishes its scan and hands in its best-split record
WorkerDone(e) ==
  /\ Len(recs) < MaxWorkers
  /\ merged.fold = <<>> /\ merged.tree = <<>>
  /\ recs' = Append(recs, e)
  /\ UNCHANGED merged
  /\ ReduceUnchanged

\* the records are merged by a sequential fold
MergeFold ==
  /\ Len(recs) >= 1
  /\ merged.fold = <<>>
  /\ merged' = [merged EXCEPT !.fold = <<LeftFold(recs)>>]
  /\ UNCHANGED recs
  /\ ReduceUnchanged

\* the records are merged by a tree-shaped reduction
MergeTree ==
  /\ Len(recs) >= 1
  /\ merged.tree = <<>>
  /\ merged' = [merged EXCEPT !.tree = <<TreeReduce(recs)>>]
  /\ UNCHANGED recs
  /\ ReduceUnchanged

NextReduce ==
  \/ \E e \in Candidates : WorkerDone(e)
  \/ MergeFold
  \/ MergeTree

SpecReduce == InitReduce /\ [][NextReduce]_vars

-----------------------------------------------------------------------------
(* The free CalcWeight / CalcGain called on accumulated statistics *)

\* hyper-parameters: reg_lambda >= 0, reg_alpha >= 0, min_child_weight >= 0,
\* max_delta_step >= 0
CalcParams ==
  { [reg_lambda |-> l, reg_alpha |-> a, min_child_weight |-> m,
     max_delta_step |-> d, monotone_constraints |-> <<>>] :
      l \in {R(0), R(1)}, a \in {R(0), R(3)}, m \in {R(0), R(1)},
      d \in {R(0), Norm(1, 2), R(2)} }

\* accumulated statistics: any gradient sum, a hessian sum >= 0
CalcGrads == {R(-10), R(-1), R(0), R(2)}
CalcHess == {R(0), Norm(1, 2), R(5)}

InitCalc ==
  /\ SplitIdle /\ PackIdle /\ ReduceIdle
  /\ calc = NoCalc
  /\ ConstraintIdle

CalcUnchanged ==
  UNCHANGED <<start, best, offered, dst, last, recs, merged, param, cons, split, sgain>>

CallCalcWeight(p, g, h) ==
  /\ calc' = [op |-> "CalcWeight", p |-> p, sum_grad |-> g, sum_hess |-> h,
              ret |-> CalcWeight(p, g, h),
              divisors |-> CalcWeightDivisors(p, g, h)]
  /\ CalcUnchanged

CallCalcGain(p, g, h) ==
  /\ calc' = [op |-> "CalcGain", p |-> p, sum_grad |-> g, sum_hess |-> h,
              ret |-> CalcGain(p, g, h),
              divisors |-> CalcGainDivisors(p, g, h)]
  /\ CalcUnchanged

NextCalc ==
  \/ \E p \in CalcParams, g \in CalcGrads, h \in CalcHess : CallCalcWeight(p, g, h)
  \/ \E p \in CalcParams, g \in CalcGrads, h \in CalcHess : CallCalcGain(p, g, h)

SpecCalc == InitCalc /\ [][NextCalc]_vars

-----------------------------------------------------------------------------
(* Monotone constraints propagated down a tree by SetChild *)

\* the largest number of SetChild calls made on one tree
MaxSplits == 2

\* the largest number of SetChild calls made before a split search
MaxSearchSplits == 1

\* monotone_constraints: feature 0 unconstrained, feature 1 increasing,
\* feature 2 decreasing
Monotone == <<0, 1, -1>>
Features == {0, 1, 2}

ConstraintParams ==
  { [reg_lambda |-> R(1), reg_alpha |-> R(0), min_child_weight |-> R(0),
     max_delta_step |-> R(0), monotone_constraints |-> Monotone],
    [reg_lambda |-> R(1), reg_alpha |-> R(1), min_child_weight |-> R(1),
     max_delta_step |-> R(3), monotone_constraints |-> Monotone] }

\* child statistics; under the first parameter set their unconstrained weights
\* are -1, 2, 4 and 6
StatsLow == GradStats(R(3), R(2))
StatsMid == GradStats(R(-4), R(1))
StatsHigh == GradStats(R(-8), R(1))
StatsTop == GradStats(R(-12), R(1))

\* the (left, right) statistics of the candidate splits: weights in
\* increasing order, in decreasing order, and equal
SplitPairs ==
  { <<StatsMid, StatsHigh>>, <<StatsHigh, StatsMid>>, <<StatsLow, StatsHigh>>,
    <<StatsTop, StatsHigh>>, <<StatsMid, StatsMid>> }

\* node ids: the root is 1, the children of n are 2n and 2n + 1
LeftChild(n) == 2 * n
RightChild(n) == 2 * n + 1
Leaves == DOMAIN cons \ DOMAIN split

InitConstraint ==
  /\ SplitIdle /\ PackIdle /\ ReduceIdle /\ CalcIdle
  /\ param \in ConstraintParams
  /\ cons = (1 :> DefaultConstraint)
  /\ split = <<>>
  /\ sgain = NoCall

ConstraintUnchanged ==
  UNCHANGED <<start, best, offered, dst, last, recs, merged, calc>>

\* cons[n].SetChild(param, f, left, right, &cons[2n], &cons[2n+1]), allowed
\* while fewer than limit calls were made
SetChildStep(limit, n, f, left, right) ==
  /\ Cardinality(DOMAIN split) < limit
  /\ n \in Leaves
  /\ SetChildCheck(cons[n], param, f, left, right)
  /\ LET ch == SetChild(cons[n], param, f, left, right)
     IN  cons' = cons @@ (LeftChild(n) :> ch.cleft) @@ (RightChild(n) :> ch.cright)
  /\ split' = split @@ (n :> [split_index |-> f, left |-> left, right |-> right])
  /\ UNCHANGED <<param, sgain>>
  /\ ConstraintUnchanged

SetChildAt(n, f, left, right) == SetChildStep(MaxSplits, n, f, left, right)

NextConstraint ==
  \E n \in Leaves, f \in Features, lr \in SplitPairs : SetChildAt(n, f, lr[1], lr[2])

SpecConstraint == InitConstraint /\ [][NextConstraint]_vars

\* the split search evaluates a candidate split of leaf n on feature f; sgain
\* keeps the evaluation, which changes nothing else
SplitGainAt(n, f, left, right) ==
  /\ sgain = NoCall
  /\ n \in Leaves
  /\ sgain' = [op |-> "CalcSplitGain", node |-> n,
               constraint |-> param.monotone_constraints[f + 1],
               left |-> left, right |-> right,
               ret |-> CalcSplitGain(cons[n], param, param.monotone_constraints[f + 1],
                                     left, right)]
  /\ UNCHANGED <<param, cons, split>>
  /\ ConstraintUnchanged

SetChildBeforeSearch(n, f, left, right) ==
  /\ sgain = NoCall
  /\ SetChildStep(MaxSearchSplits, n, f, left, right)

NextSearch ==
  \/ \E n \in Leaves, f \in Features, lr \in SplitPairs :
       SetChildBeforeSearch(n, f, lr[1], lr[2])
  \/ \E n \in Leaves, f \in Features, lr \in SplitPairs :
       SplitGainAt(n, f, lr[1], lr[2])

SpecSearch == InitConstraint /\ [][NextSearch]_vars

-----------------------------------------------------------------------------
(* Properties of the split search (Spec) *)

\* every order in which the candidates of S can be presented
RECURSIVE Orders(_)
Orders(S) ==
  IF S = {} THEN {<<>>}
  ELSE UNION { { <<x>> \o s : s \in Orders(S \ {x}) } : x \in S }

\* the record after Update was applied once per element of s, in order
RECURSIVE FoldUpdate(_, _)
FoldUpdate(acc, s) ==
  IF s = <<>> THEN acc ELSE FoldUpdate(Update(acc, Head(s)), Tail(s))

\* two different candidates with the same loss_chg and the same feature index
KeyClash(S) ==
  \E a \in S, b \in S :
    a # b /\ a.loss_chg = b.loss_chg /\ SplitIndex(a) = SplitIndex(b)

\* C1 as stated: whatever the starting record and the candidates offered, the
\* final record is the one every other presentation order produces.
C1_AnyOrderSameRecord ==
  \A s \in Orders(offered) : FoldUpdate(start, s) = best

\* C1 amended: when no two of the candidates agree on both loss_chg and
\* feature index while differing in another field, every presentation order
\* of the candidates produces the same final record, field by field.
C1_OrderIndependentWithoutKeyClash ==
  ~KeyClash(offered) => \A s \in Orders(offered) : FoldUpdate(start, s) = best

\* C1 witness: three candidates without key clash, two of them tied on gain
\* with different feature indices, and one of the tied pair is the result.
C1_Witness ==
  /\ Cardinality(offered) = 3
  /\ ~KeyClash(offered)
  /\ best \in offered
  /\ \E e \in offered : e # best /\ e.loss_chg = best.loss_chg

\* the smaller of two index words
UMin(a, b) == IF ULe(a, b) THEN a ELSE b

\* C2 as stated: from a default-constructed record, after one Update for each
\* of two candidates with equal loss_chg and different feature indices, the
\* record's SplitIndex() is the smaller of the two indices.
C2_SmallerIndexWins ==
  \A a \in offered, b \in offered :
    (start = DefaultEntry /\ offered = {a, b} /\ a.loss_chg = b.loss_chg
       /\ SplitIndex(a) # SplitIndex(b))
    => SplitIndex(best) = UMin(SplitIndex(a), SplitIndex(b))

\* C2 amended: the same, for two candidates whose common loss_chg is greater
\* than 0, the loss_chg of the default-constructed record.
C2_SmallerIndexWinsPositiveGain ==
  \A a \in offered, b \in offered :
    (start = DefaultEntry /\ offered = {a, b} /\ a.loss_chg = b.loss_chg
       /\ Gt(a.loss_chg, Zero) /\ SplitIndex(a) # SplitIndex(b))
    => SplitIndex(best) = UMin(SplitIndex(a), SplitIndex(b))

\* C2 witness: two tied candidates of positive gain were offered to a default
\* record and the one with the smaller, non-zero index is held.
C2_Witness ==
  \E a \in offered, b \in offered :
    /\ start = DefaultEntry /\ offered = {a, b}
    /\ a.loss_chg = b.loss_chg /\ Gt(a.loss_chg, Zero)
    /\ SplitIndex(a) = U32(1) /\ SplitIndex(b) = U32(2)
    /\ best = a

\* C5: once the starting record or any candidate offered so far has a gain
\* above -infinity, the record never holds a -infinity gain: an infeasible
\* candidate is held only while every alternative is infeasible too.
C5_InfeasibleNeverSelected ==
  (\E e \in offered \cup {start} : Gt(e.loss_chg, NegInf))
    => Gt(best.loss_chg, NegInf)

\* C5 witness: the search started from an infeasible record, an infeasible
\* candidate and a feasible one were offered, and the feasible one is held.
C5_Witness ==
  /\ start.loss_chg = NegInf
  /\ \E e \in offered : e.loss_chg = NegInf /\ ~ULe(SplitIndex(start), SplitIndex(e))
  /\ Cardinality(offered) >= 2
  /\ Gt(best.loss_chg, NegInf)

\* the largest loss_chg among the records of S
MaxLoss(S) == CHOOSE g \in {e.loss_chg : e \in S} : \A e \in S : Le(e.loss_chg, g)

\* C10: no Update or Reduce call decreases the record's loss_chg; after any
\* sequence of calls it is the maximum of the starting loss_chg and the
\* loss_chg of every candidate offered; and a candidate is adopted only with a
\* gain above the incumbent's, or with the incumbent's gain and a feature index
\* below the incumbent's.
C10_LossChgIsMaximum ==
  /\ [](best.loss_chg = MaxLoss(offered \cup {start}))
  /\ [][Le(best.loss_chg, best'.loss_chg)]_vars
  /\ [][best' # best =>
          \/ Gt(best'.loss_chg, best.loss_chg)
          \/ best'.loss_chg = best.loss_chg
               /\ ~ULe(SplitIndex(best), SplitIndex(best'))]_vars

\* C10 witness: three candidates were offered, one raised the record's
\* loss_chg above the starting one, and a lower-index candidate tied with
\* the starting gain was offered too.
C10_Witness ==
  /\ Cardinality(offered) = 3
  /\ Gt(best.loss_chg, start.loss_chg)
  /\ \E e \in offered : Lt(e.loss_chg, best.loss_chg)
  /\ \E e \in offered : e.loss_chg = start.loss_chg /\ ~ULe(SplitIndex(start), SplitIndex(e))

-----------------------------------------------------------------------------
(* Properties of the reduction phase (SpecReduce) *)

\* C3: for N >= 3 records, the left fold of Reduce and the balanced binary
\* tree of pairwise Reduce calls end with the same record, field by field.
C3_FoldEqualsTree ==
  (Len(recs) >= 3 /\ merged.fold # <<>> /\ merged.tree # <<>>)
    => merged.fold = merged.tree

\* C3 witness: three records tied on gain were merged both ways, and the
\* winner is neither the first nor the last of them.
C3_Witness ==
  /\ Len(recs) = 3
  /\ merged.fold # <<>> /\ merged.tree # <<>>
  /\ recs[1].loss_chg = recs[2].loss_chg /\ recs[2].loss_chg = recs[3].loss_chg
  /\ merged.tree[1] = recs[2]
  /\ recs[1] # recs[2] /\ recs[3] # recs[2]
  /\ DefaultLeft(recs[2])

-----------------------------------------------------------------------------
(* Properties of the bit packing (SpecPack) *)

\* C9: after a replacing raw-field Update with a feature index below 2^31 the
\* record's SplitIndex() is the index passed and DefaultLeft() the flag passed
\* (bit 31 the flag, bits 0..30 the index), and a record that adopts it through
\* Update(record) or Reduce shows the same pair.
C9_PackedPairPreserved ==
  /\ (last.op = "UpdateFields" /\ last.ret /\ last.split_index[1] = 0)
       => /\ SplitIndex(best) = last.split_index
          /\ DefaultLeft(best) = last.default_left
          /\ best.sindex = <<IF last.default_left THEN 1 ELSE 0, last.split_index[2]>>
  /\ (last.op \in {"Update", "Reduce"} /\ last.ret /\ last.split_index[1] = 0)
       => /\ SplitIndex(dst) = last.split_index
          /\ DefaultLeft(dst) = last.default_left

\* C9 witness: the largest index, 2^31 - 1, was packed with the flag set and
\* then copied into dst by Reduce.
C9_Witness ==
  /\ last.op = "Reduce" /\ last.ret
  /\ last.split_index = U32(MaxFeatureIndex) /\ last.default_left
  /\ dst = best
  /\ DefaultLeft(dst) /\ SplitIndex(dst) = U32(MaxFeatureIndex)

-----------------------------------------------------------------------------
(* Properties of the weight / gain calculator (SpecCalc) *)

\* C6: with reg_lambda >= 0, min_child_weight >= 0 and sum_hess >= 0, neither
\* CalcWeight nor CalcGain evaluates a division whose denominator
\* sum_hess + reg_lambda is zero.
C6_NoZeroDenominator ==
  (/\ calc.op \in {"CalcWeight", "CalcGain"}
   /\ Ge(calc.p.reg_lambda, Zero)
   /\ Ge(calc.p.min_child_weight, Zero)
   /\ Ge(calc.sum_hess, Zero))
    => Zero \notin calc.divisors

-----------------------------------------------------------------------------
(* Properties of the monotone constraints (SpecConstraint, SpecSearch) *)

\* node m lies in the subtree rooted at node n
RECURSIVE IsUnder(_, _)
IsUnder(m, n) == m = n \/ (m > n /\ IsUnder(m \div 2, n))

\* the monotone direction of the feature node n was split on
SplitDirection(n) == param.monotone_constraints[split[n].split_index + 1]

\* statistics a weight is asked for: those of the splits, large gradients of
\* either sign, and an empty hessian sum
QueryStats ==
  {StatsLow, StatsMid, StatsHigh, StatsTop,
   GradStats(R(-40), R(1)), GradStats(R(40), R(1)), GradStats(R(5), R(0))}

\* the weights CalcWeight returns under the constraint of node n
NodeWeights(n) == { ValueConstraintCalcWeight(cons[n], param, s) : s \in QueryStats }

\* C4: after SetChild on a feature of positive direction, every weight
\* CalcWeight returns under a constraint of the left subtree is <= every weight
\* it returns under a constraint of the right subtree, for all statistics; for
\* a negative direction the inequality is reversed.
C4_SubtreeWeightsMonotone ==
  \A n \in DOMAIN split : \A a \in DOMAIN cons, b \in DOMAIN cons :
    (IsUnder(a, LeftChild(n)) /\ IsUnder(b, RightChild(n)))
    => \A wa \in NodeWeights(a), wb \in NodeWeights(b) :
         /\ SplitDirection(n) > 0 => Le(wa, wb)
         /\ SplitDirection(n) < 0 => Ge(wa, wb)

\* C4 witness: the root was split on the increasing feature, its left child
\* was split again on a constrained feature, and some statistics ask for a
\* weight above the left child's upper bound, so a grandchild must clamp it.
C4_Witness ==
  /\ 1 \in DOMAIN split /\ 2 \in DOMAIN split
  /\ SplitDirection(1) > 0 /\ SplitDirection(2) # 0
  /\ \E s \in QueryStats :
       /\ Gt(CalcWeight(param, s.sum_grad, s.sum_hess), cons[2].upper_bound)
       /\ Le(ValueConstraintCalcWeight(cons[4], param, s), cons[2].upper_bound)
       /\ Le(ValueConstraintCalcWeight(cons[5], param, s), cons[2].upper_bound)

\* C7: with wleft, wright the parent's projected weights of the two child
\* statistics and mid = (wleft + wright) / 2: direction 0 gives both children
\* the parent's bounds; a positive direction sets the left child's upper bound
\* and the right child's lower bound to mid; a negative direction sets the
\* left child's lower bound and the right child's upper bound to mid; every
\* other bound is the parent's.
C7_SetChildBounds ==
  \A n \in DOMAIN split :
    LET c == cons[n]
        l == cons[LeftChild(n)]
        r == cons[RightChild(n)]
        wleft == ValueConstraintCalcWeight(c, param, split[n].left)
        wright == ValueConstraintCalcWeight(c, param, split[n].right)
        mid == Div(Add(wleft, wright), R(2))
    IN  /\ SplitDirection(n) = 0 => (l = c /\ r = c)
        /\ SplitDirection(n) > 0 =>
             /\ l.upper_bound = mid /\ l.lower_bound = c.lower_bound
             /\ r.lower_bound = mid /\ r.upper_bound = c.upper_bound
        /\ SplitDirection(n) < 0 =>
             /\ l.lower_bound = mid /\ l.upper_bound = c.upper_bound
             /\ r.upper_bound = mid /\ r.lower_bound = c.lower_bound

\* C7 witness: the root, with wleft = 2 and wright = 4, was split on the
\* increasing feature: mid = 3 bounds the left child above and the right child
\* below, and the right child was then split on the decreasing feature.
C7_Witness ==
  /\ 1 \in DOMAIN split /\ 3 \in DOMAIN split
  /\ SplitDirection(1) > 0 /\ SplitDirection(3) < 0
  /\ ValueConstraintCalcWeight(cons[1], param, split[1].left) = R(2)
  /\ ValueConstraintCalcWeight(cons[1], param, split[1].right) = R(4)
  /\ cons[2] = [lower_bound |-> NegDblMax, upper_bound |-> R(3)]
  /\ cons[3] = [lower_bound |-> R(3), upper_bound |-> PosDblMax]
  /\ cons[6].lower_bound # cons[3].lower_bound

\* C8: with wleft, wright the projected weights of the two statistics,
\* CalcSplitGain returns CalcGainGivenWeight(left, wleft) +
\* CalcGainGivenWeight(right, wright) when the direction is 0, when it is
\* positive and wleft <= wright, or when it is negative and wleft >= wright,
\* and -infinity in every other case.
C8_SplitGainValue ==
  sgain.op = "CalcSplitGain" =>
    LET c == cons[sgain.node]
        wleft == ValueConstraintCalcWeight(c, param, sgain.left)
        wright == ValueConstraintCalcWeight(c, param, sgain.right)
        sum == Add(CalcGainGivenWeight(param, sgain.left.sum_grad, sgain.left.sum_hess, wleft),
                   CalcGainGivenWeight(param, sgain.right.sum_grad, sgain.right.sum_hess, wright))
        feasible == \/ sgain.constraint = 0
                    \/ sgain.constraint > 0 /\ Le(wleft, wright)
                    \/ sgain.constraint < 0 /\ Ge(wleft, wright)
    IN  sgain.ret = IF feasible THEN sum ELSE NegInf

\* C8 witness: on a child whose bounds were tightened, a split on the
\* increasing feature whose projected weights are equal was evaluated and got
\* the finite sum, although the unconstrained weights are in the wrong order.
C8_Witness ==
  /\ sgain.op = "CalcSplitGain" /\ sgain.node # 1 /\ sgain.constraint > 0
  /\ cons[sgain.node] # DefaultConstraint
  /\ Gt(CalcWeight(param, sgain.left.sum_grad, sgain.left.sum_hess),
        CalcWeight(param, sgain.right.sum_grad, sgain.right.sum_hess))
  /\ ValueConstraintCalcWeight(cons[sgain.node], param, sgain.left)
       = ValueConstraintCalcWeight(cons[sgain.node], param, sgain.right)
  /\ IsFinite(sgain.ret)

-----------------------------------------------------------------------------
(* Agreement of the two branches of CalcGain (SpecCalc) *)

\* the unclipped step -SoftThreshold(sum_grad, reg_alpha) / (sum_hess + reg_lambda)
UnclippedWeight(p, sum_grad, sum_hess) ==
  Div(Neg(ThresholdL1(sum_grad, p.reg_alpha)), Add(sum_hess, p.reg_lambda))

\* the closed form SoftThreshold(sum_grad, reg_alpha)^2 / (sum_hess + reg_lambda)
ClosedFormGain(p, sum_grad, sum_hess) ==
  Div(Sqr(ThresholdL1(sum_grad, p.reg_alpha)), Add(sum_hess, p.reg_lambda))

\* the call recorded in calc is a CalcGain call with sum_hess >= min_child_weight,
\* sum_hess > 0, reg_alpha >= 0, reg_lambda >= 0, max_delta_step # 0 and the
\* unclipped weight inside [-max_delta_step, max_delta_step]
UnclippedGainCall ==
  /\ calc.op = "CalcGain"
  /\ Ge(calc.sum_hess, calc.p.min_child_weight)
  /\ Gt(calc.sum_hess, Zero)
  /\ Ge(calc.p.reg_alpha, Zero)
  /\ Ge(calc.p.reg_lambda, Zero)
  /\ calc.p.max_delta_step # Zero
  /\ Le(Neg(calc.p.max_delta_step), UnclippedWeight(calc.p, calc.sum_grad, calc.sum_hess))
  /\ Le(UnclippedWeight(calc.p, calc.sum_grad, calc.sum_hess), calc.p.max_delta_step)

\* C12: for sum_hess >= min_child_weight, sum_hess > 0, reg_alpha >= 0 and
\* reg_lambda >= 0, when max_delta_step is nonzero but the unclipped weight
\* already lies inside [-max_delta_step, max_delta_step], CalcGain returns the
\* closed form SoftThreshold(sum_grad, reg_alpha)^2 / (sum_hess + reg_lambda),
\* the value it returns for the same arguments when max_delta_step == 0.
C12_UnclippedGainIsClosedForm ==
  UnclippedGainCall =>
    /\ calc.ret = ClosedFormGain(calc.p, calc.sum_grad, calc.sum_hess)
    /\ calc.ret = CalcGain([calc.p EXCEPT !.max_delta_step = Zero],
                           calc.sum_grad, calc.sum_hess)

====
